---- MODULE Spec2Model ----
(***************************************************************************)
(* A model of epub-2bgs: the Floyd-Steinberg reduction of a grayscale      *)
(* raster (epub-2bgs.py), the three reference rewriters shared by          *)
(* epub-2bgs.py and reduce.py, and the archive pipeline process_epub.      *)
(*                                                                         *)
(* Three specifications share the variables:                               *)
(*   SpecDither   floyd_steinberg_dither, one pixel per step               *)
(*   SpecRewrite  update_xml_references / update_css_references /          *)
(*                update_opf_manifest applied to one file, twice           *)
(*   Spec         process_epub: extract, convert, rewrite, repack          *)
(* Text is a sequence of one-character strings.                            *)
(***************************************************************************)
EXTENDS Integers, Sequences, FiniteSets, TLC

VARIABLES
    levels,     \* floyd_steinberg_dither: the parameter levels
    width,      \* img.size[0]
    height,     \* img.size[1]
    pixels,     \* img.load(): <<x, y>> -> 0..255
    cur,        \* row-major index of the next pixel the loops visit
    dpc,        \* "idle" | "loop" | "returned"
    rw_kind,    \* the rewriter under study: "xml" | "css" | "opf" | "none"
    rw_map,     \* image_mapping: sequence of <<old_path, new_path>>
    rw_texts,   \* markup / CSS file: the content at the start and after each call
    rw_docs,    \* OPF file: the document at the start and after each call
    variant,    \* "2bit" (epub-2bgs.py) | "4bit" (reduce.py)
    epub,       \* the input archive: [valid, files]
    pc,         \* process_epub: "extract" | "images" | "references" | "repack"
                \*   | "repack_rest" | "done" | "failed" ("idle": not running)
    tree,       \* extract_dir: relative path -> file content
    todo,       \* what the running rglob loop has still to yield
    loop,       \* index of the running reference loop (htm, html, ...)
    image_mapping,  \* sequence of <<rel_old_path, rel_new_path>>
    conv_ok,    \* sources reported "Converted"
    conv_err,   \* sources reported "Error converting"
    calls,      \* <<handler, path>> of every rewriter call made
    zip_out     \* entries written to the output archive, in order

dvars == <<levels, width, height, pixels, cur, dpc>>
rvars == <<rw_kind, rw_map, rw_texts, rw_docs>>
pvars == <<variant, epub, pc, tree, todo, loop, image_mapping, conv_ok,
           conv_err, calls, zip_out>>

vars == <<dvars, rvars, pvars>>

-----------------------------------------------------------------------------
(* Bounds of the model.                                                    *)

MaxLevels == 5
MaxWidth == 3
MaxHeight == 2
MaxMapLen == 2      \* entries of image_mapping in SpecRewrite
MaxRefs == 2        \* references in one markup / CSS file
MaxItems == 2       \* items in one manifest
MaxCalls == 2       \* calls of a rewriter on the same file
MaxFiles == 3       \* files in the input archive

\* Input rasters: linear ramps (base + x*dx + y*dy) mod 256, which include the
\* uniform rasters (dx = dy = 0) and rasters with sharp edges (wrap-around).
RampBases == {0, 17, 60, 100, 128, 150, 200, 240, 255}
RampSlopes == {0, 40, 90, 200}

-----------------------------------------------------------------------------
(* floyd_steinberg_dither (epub-2bgs.py 71-105).                           *)
(* step = 255.0 / (levels - 1) is kept as the fraction 255 / (levels - 1); *)
(* every quantity of the loop body is a multiple of 1 / (16 * (levels-1)), *)
(* so the float arithmetic is modelled exactly on integer numerators (for  *)
(* the levels used here step is a dyadic rational and the floats of the    *)
(* code are exact).                                                        *)

\* max(0, min(255, v)) on integers
Clamp255(v) == IF v < 0 THEN 0 ELSE IF v > 255 THEN 255 ELSE v

\* round(old_pixel / step): the nearest integer to old * (n-1) / 255; a tie
\* would need 2 * old * (n-1) = 255 * (2k+1), odd against even, so
\* round-half-even never applies.
RoundIndex(old, n) == (2 * old * (n - 1) + 255) \div 510

\* int(max(0, min(255, new_pixel))) with new_pixel = k * step: truncation of
\* the level k * 255 / (n-1)
StoredLevel(k, n) == Clamp255((255 * k) \div (n - 1))

\* error = old_pixel - new_pixel, as the numerator over (n-1)
ErrorNum(old, n) == old * (n - 1) - 255 * RoundIndex(old, n)

\* int(max(0, min(255, p + error * wgt / 16))): clamp, then truncate; the
\* clamped value is never negative, so int() is the floor
Diffused(p, e, wgt, n) ==
    LET num == p * 16 * (n - 1) + e * wgt
        den == 16 * (n - 1)
    IN  IF num < 0 THEN 0
        ELSE IF num > 255 * den THEN 255
        ELSE num \div den

\* A slip in line 89-91: the 7/16 share goes to the pixel on the left, which
\* is already quantized
NeighboursLeft(x, y, w, h) ==
    (IF x > 0 THEN {<<<<x - 1, y>>, 7>>} ELSE {})
    \cup (IF y + 1 < h
          THEN (IF x > 0 THEN {<<<<x - 1, y + 1>>, 3>>} ELSE {})
               \cup {<<<<x, y + 1>>, 5>>}
               \cup (IF x + 1 < w THEN {<<<<x + 1, y + 1>>, 1>>} ELSE {})
          ELSE {})

\* A slip in lines 93-103: the three shares of the next row go to the row
\* above (y - 1 for y + 1), which the loops have already visited
NeighboursAbove(x, y, w, h) ==
    (IF x + 1 < w THEN {<<<<x + 1, y>>, 7>>} ELSE {})
    \cup (IF y > 0
          THEN (IF x > 0 THEN {<<<<x - 1, y - 1>>, 3>>} ELSE {})
               \cup {<<<<x, y - 1>>, 5>>}
               \cup (IF x + 1 < w THEN {<<<<x + 1, y - 1>>, 1>>} ELSE {})
          ELSE {})

\* The neighbours the loop body writes for the pixel at <<x, y>>, with their
\* weights in sixteenths, bounds checks as in lines 89, 93, 94, 101.
Neighbours(x, y, w, h) ==
    (IF x + 1 < w THEN {<<<<x + 1, y>>, 7>>} ELSE {})
    \cup (IF y + 1 < h
          THEN (IF x > 0 THEN {<<<<x - 1, y + 1>>, 3>>} ELSE {})
               \cup {<<<<x, y + 1>>, 5>>}
               \cup (IF x + 1 < w THEN {<<<<x + 1, y + 1>>, 1>>} ELSE {})
          ELSE {})

\* One iteration of the inner loop at <<x, y>> (lines 82-103). The cells
\* written are pairwise distinct, so the sequential writes are one update.
DitherPixel(px, x, y, w, h, n) ==
    LET old == px[<<x, y>>]
        e   == ErrorNum(old, n)
        nb  == Neighbours(x, y, w, h)
    IN  [c \in DOMAIN px |->
            IF c = <<x, y>> THEN StoredLevel(RoundIndex(old, n), n)
            ELSE IF \E t \in nb : t[1] = c
                 THEN LET t == CHOOSE t \in nb : t[1] = c
                      IN  Diffused(px[c], e, t[2], n)
                 ELSE px[c]]

DitherIdle ==
    /\ levels = 2 /\ width = 0 /\ height = 0
    /\ pixels = << >> /\ cur = 0 /\ dpc = "idle"

RewriteIdle ==
    /\ rw_kind = "none" /\ rw_map = << >>
    /\ rw_texts = << >> /\ rw_docs = << >>

PipelineIdle ==
    /\ variant = "2bit" /\ epub = [valid |-> FALSE, files |-> << >>]
    /\ pc = "idle" /\ tree = << >> /\ todo = {} /\ loop = 0
    /\ image_mapping = << >> /\ conv_ok = {} /\ conv_err = {}
    /\ calls = {} /\ zip_out = << >>

Ramp(w, h, b, dx, dy) ==
    [c \in (0 .. w - 1) \X (0 .. h - 1) |-> (b + c[1] * dx + c[2] * dy) % 256]

CurX == cur % width
CurY == cur \div width

DitherInit ==
    /\ levels \in 2 .. MaxLevels
    /\ width \in 1 .. MaxWidth
    /\ height \in 1 .. MaxHeight
    /\ \E b \in RampBases, dx \in RampSlopes, dy \in RampSlopes :
           pixels = Ramp(width, height, b, dx, dy)
    /\ cur = 0
    /\ dpc = "loop"
    /\ RewriteIdle
    /\ PipelineIdle

\* for y in range(height): for x in range(width): <body>
DitherStep ==
    /\ dpc = "loop"
    /\ cur < width * height
    /\ pixels' = DitherPixel(pixels, CurX, CurY, width, height, levels)
    /\ cur' = cur + 1
    /\ UNCHANGED <<levels, width, height, dpc>>
    /\ UNCHANGED <<rvars, pvars>>

\* return img
DitherReturn ==
    /\ dpc = "loop"
    /\ cur = width * height
    /\ dpc' = "returned"
    /\ UNCHANGED <<levels, width, height, pixels, cur>>
    /\ UNCHANGED <<rvars, pvars>>

DitherNext == DitherStep \/ DitherReturn

SpecDither == DitherInit /\ [][DitherNext]_vars

-----------------------------------------------------------------------------
(* Text helpers: Python str and os.path operations on character sequences. *)

\* s[i:].startswith(p), 1-based
StartsWithAt(s, i, p) ==
    /\ i >= 1
    /\ i + Len(p) - 1 <= Len(s)
    /\ \A k \in 1 .. Len(p) : s[i + k - 1] = p[k]

\* s.endswith(p)
EndsWith(s, p) == Len(p) <= Len(s) /\ StartsWithAt(s, Len(s) - Len(p) + 1, p)

\* s.rfind(ch) + 1: the last position of ch in s, 0 when absent
LastIndexOf(s, ch) ==
    LET at == {i \in 1 .. Len(s) : s[i] = ch}
    IN  IF at = {} THEN 0 ELSE CHOOSE i \in at : \A j \in at : j <= i

\* str.replace(old, new): the non-overlapping occurrences of old, leftmost
\* first, each replaced by new (old is never empty here)
RECURSIVE StrReplaceFrom(_, _, _, _)
StrReplaceFrom(s, i, old, new) ==
    IF i > Len(s) THEN <<>>
    ELSE IF StartsWithAt(s, i, old)
         THEN new \o StrReplaceFrom(s, i + Len(old), old, new)
         ELSE <<s[i]>> \o StrReplaceFrom(s, i + 1, old, new)

StrReplace(s, old, new) == StrReplaceFrom(s, 1, old, new)

\* os.path.basename(p): what follows the last "/"
Basename(p) == SubSeq(p, LastIndexOf(p, "/") + 1, Len(p))

\* os.path.dirname-like prefix of p up to and including the last "/"
DirPrefix(p) == SubSeq(p, 1, LastIndexOf(p, "/"))

\* str.lower() on the ASCII letters
UpperCase == <<"A","B","C","D","E","F","G","H","I","J","K","L","M",
               "N","O","P","Q","R","S","T","U","V","W","X","Y","Z">>
LowerCase == <<"a","b","c","d","e","f","g","h","i","j","k","l","m",
               "n","o","p","q","r","s","t","u","v","w","x","y","z">>
LowerChar(ch) ==
    IF \E i \in 1 .. 26 : UpperCase[i] = ch
    THEN LowerCase[CHOOSE i \in 1 .. 26 : UpperCase[i] = ch]
    ELSE ch
Lower(s) == [i \in 1 .. Len(s) |-> LowerChar(s[i])]

\* pathlib: PurePath.suffix and PurePath.stem of a file name. The suffix
\* starts at the last "." unless that is the first or the last character.
SuffixStart(name) ==
    LET i == LastIndexOf(name, ".")
    IN  IF i > 1 /\ i < Len(name) THEN i ELSE Len(name) + 1
PathSuffix(p) == LET n == Basename(p) IN SubSeq(n, SuffixStart(n), Len(n))
PathStem(p) == LET n == Basename(p) IN SubSeq(n, 1, SuffixStart(n) - 1)

DotPng == <<".", "p", "n", "g">>
DotJpg == <<".", "j", "p", "g">>
DotJpeg == <<".", "j", "p", "e", "g">>

\* image_extensions = {'.png', '.jpg', '.jpeg'}
image_extensions == {DotPng, DotJpg, DotJpeg}

\* img_file.suffix.lower() in image_extensions
IsImagePath(p) == Lower(PathSuffix(p)) \in image_extensions

\* new_name = img_file.stem + '.png'; new_path = img_file.parent / new_name,
\* relative to the extraction root
NewPathOf(p) == DirPrefix(p) \o PathStem(p) \o DotPng

-----------------------------------------------------------------------------
(* re.sub for the patterns of the rewriters. Every pattern has the shape   *)
(*     pre ( run / old ) post                                              *)
(* where old is re.escape(old_filename), and run is either [^stop]*        *)
(* (greedy) or a literal directory. A pattern is the record                *)
(*     [pre, any, stop, dir, post].                                        *)

PatAny(pre, stop, post) ==
    [pre |-> pre, any |-> TRUE, stop |-> stop, dir |-> <<>>, post |-> post]
PatDir(pre, dir, post) ==
    [pre |-> pre, any |-> FALSE, stop |-> "", dir |-> dir, post |-> post]

\* The positions k at which "/" old post can follow a run that starts at g0
RunEnds(s, g0, pat, old) ==
    {k \in g0 .. Len(s) :
        /\ StartsWithAt(s, k, <<"/">> \o old \o pat.post)
        /\ IF pat.any
           THEN \A j \in g0 .. k - 1 : s[j] # pat.stop
           ELSE SubSeq(s, g0, k - 1) = pat.dir}

\* The match of the pattern that starts at i: <<position of the "/" before
\* old, position after the match>>, or <<0, 0>>. The greedy run takes the
\* longest alternative.
MatchAt(s, i, pat, old) ==
    IF ~StartsWithAt(s, i, pat.pre) THEN <<0, 0>>
    ELSE LET g0 == i + Len(pat.pre)
             ks == RunEnds(s, g0, pat, old)
         IN  IF ks = {} THEN <<0, 0>>
             ELSE LET k == CHOOSE k \in ks : \A j \in ks : j <= k
                  IN  <<k, k + 1 + Len(old) + Len(pat.post)>>

\* re.sub(pattern, lambda m: outpre + m.group(1).replace(old, new) + outpost,
\* s) from position i on: leftmost matches, not overlapping
RECURSIVE ReSubFrom(_, _, _, _, _, _, _)
ReSubFrom(s, i, pat, old, new, outpre, outpost) ==
    IF i > Len(s) THEN <<>>
    ELSE LET m == MatchAt(s, i, pat, old)
         IN  IF m[2] = 0
             THEN <<s[i]>> \o ReSubFrom(s, i + 1, pat, old, new, outpre, outpost)
             ELSE LET group == SubSeq(s, i + Len(pat.pre), m[1] + Len(old))
                  IN  outpre \o StrReplace(group, old, new) \o outpost
                      \o ReSubFrom(s, m[2], pat, old, new, outpre, outpost)

ReSub(s, pat, old, new, outpre, outpost) ==
    ReSubFrom(s, 1, pat, old, new, outpre, outpost)

\* open(file_path, 'r').read(): text mode with universal newlines, every
\* "\r\n" and every lone "\r" of the file is read as "\n"
RECURSIVE UniversalNewlines(_)
UniversalNewlines(s) ==
    IF s = << >> THEN << >>
    ELSE IF Head(s) = "\r"
         THEN IF Len(s) >= 2 /\ s[2] = "\n"
              THEN <<"\n">> \o UniversalNewlines(SubSeq(s, 3, Len(s)))
              ELSE <<"\n">> \o UniversalNewlines(Tail(s))
         ELSE <<Head(s)>> \o UniversalNewlines(Tail(s))

\* for pattern in patterns: new_content = re.sub(pattern, ..., content);
\* if new_content != content: content = new_content; modified = True.
\* st is the record [content, modified].
RECURSIVE ApplyPatterns(_, _, _, _, _, _)
ApplyPatterns(st, pats, old, new, outpre, outpost) ==
    IF pats = <<>> THEN st
    ELSE LET new_content == ReSub(st.content, Head(pats), old, new, outpre, outpost)
         IN  ApplyPatterns([content  |-> new_content,
                            modified |-> st.modified \/ new_content # st.content],
                           Tail(pats), old, new, outpre, outpost)

-----------------------------------------------------------------------------
(* update_xml_references (epub-2bgs.py 129-161, reduce.py 49-81).          *)

DQ == "\""
SQ == "'"
SrcEq == <<"s", "r", "c", "=">>
SrcDQ == SrcEq \o <<DQ>>
SrcSQ == SrcEq \o <<SQ>>
ImagesDir == <<"i", "m", "a", "g", "e", "s">>

\* The attribute src=<q>v<q>
XmlRef(q, v) == SrcEq \o <<q>> \o v \o <<q>>

\* patterns = [...] of lines 141-147, in order
XmlPatterns ==
    << PatAny(SrcDQ, DQ, <<DQ>>),
       PatAny(SrcSQ, SQ, <<SQ>>),
       PatDir(SrcDQ, ImagesDir, <<DQ>>),
       PatDir(SrcDQ, <<".", ".", "/">> \o ImagesDir, <<DQ>>),
       PatDir(SrcDQ, <<".", "/">> \o ImagesDir, <<DQ>>) >>

\* The loop over image_mapping.items() in insertion order (lines 135-153);
\* m is a sequence of <<old_path, new_path>>.
RECURSIVE XmlLoop(_, _)
XmlLoop(st, m) ==
    IF m = <<>> THEN st
    ELSE XmlLoop(
             ApplyPatterns(st, XmlPatterns, Basename(m[1][1]), Basename(m[1][2]),
                           SrcDQ, <<DQ>>),
             Tail(m))

\* The file content update_xml_references leaves for a file of content s:
\* the content is read in text mode, and written back (with "\n" line ends)
\* only if some substitution changed it.
update_xml_references(s, m) ==
    LET st == XmlLoop([content |-> UniversalNewlines(s), modified |-> FALSE], m)
    IN  IF st.modified THEN st.content ELSE s

-----------------------------------------------------------------------------
(* update_css_references (epub-2bgs.py 163-193, reduce.py 83-113).         *)

UrlOpen == <<"u", "r", "l", "(">>
UrlDQ == UrlOpen \o <<DQ>>
UrlSQ == UrlOpen \o <<SQ>>

\* patterns = [...] of lines 175-179, in order
CssPatterns ==
    << PatAny(UrlDQ, DQ, <<DQ, ")">>),
       PatAny(UrlSQ, SQ, <<SQ, ")">>),
       PatAny(UrlOpen, ")", <<")">>) >>

\* The loop over image_mapping.items() (lines 169-185)
RECURSIVE CssLoop(_, _)
CssLoop(st, m) ==
    IF m = <<>> THEN st
    ELSE CssLoop(
             ApplyPatterns(st, CssPatterns, Basename(m[1][1]), Basename(m[1][2]),
                           UrlDQ, <<DQ, ")">>),
             Tail(m))

\* The file content update_css_references leaves for a file of content s,
\* read and written in text mode as in update_xml_references
update_css_references(s, m) ==
    LET st == CssLoop([content |-> UniversalNewlines(s), modified |-> FALSE], m)
    IN  IF st.modified THEN st.content ELSE s

-----------------------------------------------------------------------------
(* update_opf_manifest (epub-2bgs.py 195-246, reduce.py 115-166).          *)
(* An OPF file is the record                                               *)
(*   [parsed   : ET.parse succeeds,                                        *)
(*    manifest : root.find finds a manifest element,                       *)
(*    items    : the item elements, each [id, href, media],                *)
(*    form     : "source" as extracted, "etree" once tree.write wrote it]  *)

\* The index of the first mapping entry whose old filename href ends with
\* (lines 226-227), 0 when there is none
FirstMatch(href, m) ==
    LET hit == {i \in 1 .. Len(m) : EndsWith(href, Basename(m[i][1]))}
    IN  IF hit = {} THEN 0 ELSE CHOOSE i \in hit : \A j \in hit : i <= j

\* Lines 222-237 for one item
UpdateItem(item, m) ==
    LET i == FirstMatch(item.href, m)
    IN  IF i = 0 THEN item
        ELSE [item EXCEPT
                 !.href = StrReplace(item.href, Basename(m[i][1]), Basename(m[i][2])),
                 !.media = IF item.media = "image/jpeg" THEN "image/png"
                           ELSE item.media]

update_opf_manifest(doc, m) ==
    IF ~doc.parsed \/ ~doc.manifest THEN doc
    ELSE LET modified == \E k \in 1 .. Len(doc.items) :
                             FirstMatch(doc.items[k].href, m) # 0
         IN  IF ~modified THEN doc
             ELSE [doc EXCEPT
                      !.items = [k \in 1 .. Len(doc.items) |->
                                    UpdateItem(doc.items[k], m)],
                      !.form = "etree"]

-----------------------------------------------------------------------------
(* SpecRewrite: one rewriter applied to one file, MaxCalls times.          *)

Str_i_a_jpg == <<"i", "/", "a", ".", "j", "p", "g">>
Str_i_b_jpg == <<"i", "/", "b", ".", "j", "p", "g">>
Str_i_c_png == <<"i", "/", "c", ".", "p", "n", "g">>
Str_a_jpg == Basename(Str_i_a_jpg)
Str_b_jpg == Basename(Str_i_b_jpg)
Str_c_png == Basename(Str_i_c_png)
Str_xa_jpg == <<"x">> \o Str_a_jpg
Str_t_gif == <<"t", ".", "g", "i", "f">>

\* Source images the mappings are built from
RwImages == {Str_i_a_jpg, Str_i_b_jpg, Str_i_c_png}

\* image_mapping as process_epub builds it (lines 294-296): one entry per
\* converted image, old path -> NewPathOf(old path), in traversal order
RECURSIVE MappingsOfLen(_)
MappingsOfLen(n) ==
    IF n = 0 THEN {<< >>}
    ELSE {Append(m, <<p, NewPathOf(p)>>) :
             m \in MappingsOfLen(n - 1), p \in RwImages} 

HasDuplicateKey(m) == \E i, j \in 1 .. Len(m) : i < j /\ m[i][1] = m[j][1]

Mappings ==
    {m \in UNION {MappingsOfLen(n) : n \in 1 .. MaxMapLen} : ~HasDuplicateKey(m)}

\* Reference values: a directory prefix and a file name
RefPrefixes ==
    { << >>,
      ImagesDir \o <<"/">>,
      <<".", "/">> \o ImagesDir \o <<"/">>,
      <<".", ".", "/">> \o ImagesDir \o <<"/">>,
      Str_xa_jpg \o <<"/">> }
RefNames == {Str_a_jpg, Str_b_jpg, Str_c_png, Str_xa_jpg}
RefValues == {d \o n : d \in RefPrefixes, n \in RefNames}
ShortValues == {ImagesDir \o <<"/">> \o n : n \in RefNames}

\* A file of n references separated by a blank: the first takes any value,
\* the others one under images/. open and close are the delimiters of a
\* reference, taken from delims (a pair may be mismatched: files are not
\* all well formed).
RECURSIVE RefTexts(_, _, _)
RefTexts(n, head, delims) ==
    IF n = 1
    THEN {head \o d[1] \o v \o d[2] : d \in delims, v \in RefValues}
    ELSE {t \o <<" ">> \o head \o d[1] \o v \o d[2] :
             t \in RefTexts(n - 1, head, delims), d \in delims, v \in ShortValues}

\* Line ends of a file: DOS, old Mac, Unix
LineEnds == {<<"\r", "\n">>, <<"\r">>, <<"\n">>}

\* The files of one reference followed by a line end
RefLines(head, delims) ==
    {t \o e : t \in RefTexts(1, head, delims), e \in LineEnds}

XmlDelims == {<< <<q1>>, <<q2>> >> : q1 \in {DQ, SQ}, q2 \in {DQ, SQ}}
XmlInputs ==
    UNION {RefTexts(n, SrcEq, XmlDelims) : n \in 1 .. MaxRefs}
    \cup RefLines(SrcEq, XmlDelims)

CssDelims ==
    { << <<DQ>>, <<DQ, ")">> >>, << <<SQ>>, <<SQ, ")">> >>, << << >>, <<")">> >>,
      << <<SQ>>, <<DQ, ")">> >>, << <<DQ>>, <<SQ, ")">> >> }
CssInputs ==
    UNION {RefTexts(n, UrlOpen, CssDelims) : n \in 1 .. MaxRefs}
    \cup RefLines(UrlOpen, CssDelims)

ItemHrefs ==
    { ImagesDir \o <<"/">> \o Str_a_jpg, Str_a_jpg,
      ImagesDir \o <<"/">> \o Str_xa_jpg,
      ImagesDir \o <<"/">> \o Str_c_png,
      Str_xa_jpg \o <<"/">> \o Str_b_jpg,
      ImagesDir \o <<"/">> \o Str_t_gif }
ItemMedia == {"image/jpeg", "image/png", "image/gif"}

RECURSIVE ItemSeqs(_)
ItemSeqs(n) ==
    IF n = 0 THEN {<< >>}
    ELSE {Append(s, [id |-> n, href |-> h, media |-> t]) :
             s \in ItemSeqs(n - 1), h \in ItemHrefs, t \in ItemMedia}

OpfInputs ==
    {[parsed |-> TRUE, manifest |-> TRUE, items |-> s, form |-> "source"] :
        s \in UNION {ItemSeqs(n) : n \in 1 .. MaxItems}}
    \cup {[parsed |-> TRUE, manifest |-> FALSE, items |-> << >>, form |-> "source"],
          [parsed |-> FALSE, manifest |-> FALSE, items |-> << >>, form |-> "source"]}

Last(s) == s[Len(s)]

RewriteInit ==
    /\ DitherIdle
    /\ PipelineIdle
    /\ rw_kind \in {"xml", "css", "opf"}
    /\ rw_map \in Mappings
    /\ rw_texts \in IF rw_kind = "xml" THEN {<<x>> : x \in XmlInputs}
                    ELSE IF rw_kind = "css" THEN {<<x>> : x \in CssInputs}
                    ELSE {<< >>}
    /\ rw_docs \in IF rw_kind = "opf" THEN {<<d>> : d \in OpfInputs} ELSE {<< >>}

CallXml ==
    /\ rw_kind = "xml"
    /\ Len(rw_texts) <= MaxCalls
    /\ rw_texts' = Append(rw_texts, update_xml_references(Last(rw_texts), rw_map))
    /\ UNCHANGED <<rw_kind, rw_map, rw_docs>>
    /\ UNCHANGED <<dvars, pvars>>

CallCss ==
    /\ rw_kind = "css"
    /\ Len(rw_texts) <= MaxCalls
    /\ rw_texts' = Append(rw_texts, update_css_references(Last(rw_texts), rw_map))
    /\ UNCHANGED <<rw_kind, rw_map, rw_docs>>
    /\ UNCHANGED <<dvars, pvars>>

CallOpf ==
    /\ rw_kind = "opf"
    /\ Len(rw_docs) <= MaxCalls
    /\ rw_docs' = Append(rw_docs, update_opf_manifest(Last(rw_docs), rw_map))
    /\ UNCHANGED <<rw_kind, rw_map, rw_texts>>
    /\ UNCHANGED <<dvars, pvars>>

RewriteNext == CallXml \/ CallCss \/ CallOpf

SpecRewrite == RewriteInit /\ [][RewriteNext]_vars

-----------------------------------------------------------------------------
(* process_epub (epub-2bgs.py 248-366, reduce.py 168-274).                 *)
(* A file content is the record                                            *)
(*   [data   : "image" | "text" | "opf" | "dir" (a directory),              *)
(*    ok     : an image that Image.open / convert / save can process,      *)
(*    origin : the archive path whose picture an image holds,              *)
(*    gray   : the image is an output of the converter,                    *)
(*    text   : the characters of a text file,                              *)
(*    doc    : the document of an OPF file]                                *)

NoDoc == [parsed |-> FALSE, manifest |-> FALSE, items |-> << >>, form |-> "source"]

ImageFile(origin, ok, gray) ==
    [data |-> "image", ok |-> ok, origin |-> origin, gray |-> gray,
     text |-> << >>, doc |-> NoDoc]
TextFile(t) ==
    [data |-> "text", ok |-> FALSE, origin |-> << >>, gray |-> FALSE,
     text |-> t, doc |-> NoDoc]
OpfFile(d) ==
    [data |-> "opf", ok |-> FALSE, origin |-> << >>, gray |-> FALSE,
     text |-> << >>, doc |-> d]

\* A directory of the scratch tree
DirEntry ==
    [data |-> "dir", ok |-> FALSE, origin |-> << >>, gray |-> FALSE,
     text |-> << >>, doc |-> NoDoc]

\* The directories above the path p: its prefixes up to a "/"
ParentDirs(p) == {SubSeq(p, 1, i - 1) : i \in {j \in 1 .. Len(p) : p[j] = "/"}}

\* zip_ref.extractall(extract_dir): the files and directories of the archive
\* and the directories above them
ExtractAll(files) ==
    LET dirs == UNION {ParentDirs(p) : p \in DOMAIN files}
    IN  [p \in DOMAIN files \cup dirs |->
            IF p \in DOMAIN files THEN files[p] ELSE DirEntry]

\* path.is_file()
IsFile(t, p) == p \in DOMAIN t /\ t[p].data # "dir"

Str_mimetype == <<"m", "i", "m", "e", "t", "y", "p", "e">>
Str_q_html == <<"q", ".", "h", "t", "m", "l">>
Str_d_mimetype == <<"d", "/">> \o Str_mimetype
Str_i_a_png == <<"i", "/", "a", ".", "p", "n", "g">>
Str_i_b_PNG == <<"i", "/", "b", ".", "P", "N", "G">>
Str_c_htm == <<"c", ".", "h", "t", "m">>
Str_c_html == <<"c", ".", "h", "t", "m", "l">>
Str_c_xhtml == <<"c", ".", "x", "h", "t", "m", "l">>
Str_s_css == <<"s", ".", "c", "s", "s">>
Str_p_opf == <<"p", ".", "o", "p", "f">>
Str_epub_zip == <<"e", "p", "u", "b", "+", "z", "i", "p">>

ArchiveImages == {Str_i_a_jpg, Str_i_a_png, Str_i_b_PNG}
ArchiveMarkup == {Str_c_htm, Str_c_html, Str_c_xhtml}
\* Paths that are a directory of the archive: always (q.html) or in some
\* archives (mimetype)
ArchiveDirs == {Str_q_html}
ArchiveFileOrDir == {Str_mimetype}
ArchivePaths ==
    {Str_mimetype, Str_d_mimetype, Str_s_css, Str_p_opf}
    \cup ArchiveImages \cup ArchiveMarkup \cup ArchiveDirs

\* What the archive holds under a path that is not an image: every
\* referencing file refers to i/a.jpg; c.xhtml has DOS line ends
ArchiveContent(p) ==
    IF p = Str_c_xhtml THEN TextFile(XmlRef(DQ, Str_i_a_jpg) \o <<"\r", "\n">>)
    ELSE IF p \in ArchiveMarkup THEN TextFile(XmlRef(DQ, Str_i_a_jpg))
    ELSE IF p = Str_s_css THEN TextFile(UrlOpen \o Str_i_a_jpg \o <<")">>)
    ELSE IF p = Str_p_opf
         THEN OpfFile([parsed |-> TRUE, manifest |-> TRUE, form |-> "source",
                       items |-> <<[id |-> 1, href |-> Str_i_a_jpg,
                                    media |-> "image/jpeg"]>>])
    ELSE TextFile(Str_epub_zip)

\* tree with path p removed / written
Unlink(t, p) == [x \in DOMAIN t \ {p} |-> t[x]]
WriteFile(t, p, c) == [x \in DOMAIN t \cup {p} |-> IF x = p THEN c ELSE t[x]]

\* What an archive can hold under the path p: an image decodable or not, a
\* directory, or the content of the path
MemberChoices(p) ==
    IF p \in ArchiveImages THEN {ImageFile(p, ok, FALSE) : ok \in BOOLEAN}
    ELSE IF p \in ArchiveDirs THEN {DirEntry}
    ELSE IF p \in ArchiveFileOrDir THEN {ArchiveContent(p), DirEntry}
    ELSE {ArchiveContent(p)}

RECURSIVE ArchivesOver(_)
ArchivesOver(ps) ==
    IF ps = {} THEN {[p \in {} |-> DirEntry]}
    ELSE LET p == CHOOSE q \in ps : TRUE
         IN  {WriteFile(f, p, c) : f \in ArchivesOver(ps \ {p}), c \in MemberChoices(p)}

\* The archives: at most MaxFiles members (files and empty directories)
Archives ==
    UNION {ArchivesOver(ps) :
              ps \in {qs \in SUBSET ArchivePaths : Cardinality(qs) <= MaxFiles}}

\* image_mapping[k] = v on a dict: a new key is appended, an old key keeps
\* its place
MapPut(m, k, v) ==
    IF \E i \in 1 .. Len(m) : m[i][1] = k
    THEN [i \in 1 .. Len(m) |-> IF m[i][1] = k THEN <<k, v>> ELSE m[i]]
    ELSE Append(m, <<k, v>>)
MapKeys(m) == {m[i][1] : i \in 1 .. Len(m)}

\* if img_file.is_file() and img_file.suffix.lower() in image_extensions
IsImageFile(t, p) == IsFile(t, p) /\ IsImagePath(p)

\* if img_file.suffix.lower() != '.png': img_file.unlink()
RemovesOriginal(p) == Lower(PathSuffix(p)) # DotPng

\* The scratch tree after create_*_grayscale_png(p, NewPathOf(p)) returned
\* True and lines 298-300 ran
TreeAfterConversion(t, p) ==
    LET written == WriteFile(t, NewPathOf(p), ImageFile(t[p].origin, TRUE, TRUE))
    IN  IF RemovesOriginal(p) THEN Unlink(written, p) ELSE written

\* dithered_img.save(output_path) can open its destination: the path is not
\* a directory
DestinationWritable(t, p) ==
    NewPathOf(p) \in DOMAIN t => t[NewPathOf(p)].data # "dir"

\* The scratch trees create_*_grayscale_png can leave when it returns False:
\* nothing written (Image.open or convert raised, or the destination cannot
\* be opened), or the destination left behind unreadable (save raised after
\* opening it)
TreesAfterFailure(t, p) ==
    IF t[p].data = "image" /\ t[p].ok /\ DestinationWritable(t, p)
    THEN {WriteFile(t, NewPathOf(p), ImageFile(t[p].origin, FALSE, TRUE))}
    ELSE {t}

\* A slip in line 292: the mapping entry is stored whatever the converter
\* returned
MappingAfterAlways(m, p, converted) == MapPut(m, p, NewPathOf(p))

\* image_mapping after the attempt on p (lines 292-296)
MappingAfter(m, p, converted) ==
    IF converted THEN MapPut(m, p, NewPathOf(p)) ELSE m

\* The reference loops of lines 317-330 (epub-2bgs.py) and 227-238
\* (reduce.py): glob suffix and handler, in order
Str_dot_htm == <<".", "h", "t", "m">>
Str_dot_html == <<".", "h", "t", "m", "l">>
Str_dot_xhtml == <<".", "x", "h", "t", "m", "l">>
Str_dot_css == <<".", "c", "s", "s">>
Str_dot_opf == <<".", "o", "p", "f">>

ReferenceLoops(v) ==
    (IF v = "2bit" THEN <<[suffix |-> Str_dot_htm, handler |-> "xml"]>> ELSE << >>)
    \o << [suffix |-> Str_dot_html, handler |-> "xml"],
          [suffix |-> Str_dot_xhtml, handler |-> "xml"],
          [suffix |-> Str_dot_css, handler |-> "css"],
          [suffix |-> Str_dot_opf, handler |-> "opf"] >>

\* extract_dir.rglob('*' + suffix)
Glob(t, suffix) == {p \in DOMAIN t : EndsWith(Basename(p), suffix)}

\* The content a handler leaves in a file; a file the handler cannot read
\* as what it expects raises inside the handler and is left as it is
Handled(c, handler, m) ==
    IF handler = "xml" /\ c.data = "text"
    THEN [c EXCEPT !.text = update_xml_references(c.text, m)]
    ELSE IF handler = "css" /\ c.data = "text"
    THEN [c EXCEPT !.text = update_css_references(c.text, m)]
    ELSE IF handler = "opf" /\ c.data = "opf"
    THEN [c EXCEPT !.doc = update_opf_manifest(c.doc, m)]
    ELSE c

\* if file_path.is_file() and file_path.name != 'mimetype'
RepackEligible(t, p) == IsFile(t, p) /\ Basename(p) # Str_mimetype

Entry(p, c, compress) == [arcname |-> p, compress |-> compress, content |-> c]

PipelineInit ==
    /\ DitherIdle
    /\ RewriteIdle
    /\ variant \in {"2bit", "4bit"}
    /\ epub \in {[valid |-> TRUE, files |-> f] : f \in Archives}
                \cup {[valid |-> FALSE, files |-> << >>]}
    /\ pc = "extract"
    /\ tree = << >>
    /\ todo = {}
    /\ loop = 0
    /\ image_mapping = << >>
    /\ conv_ok = {}
    /\ conv_err = {}
    /\ calls = {}
    /\ zip_out = << >>

\* zip_ref.extractall(extract_dir); the image loop starts
Extract ==
    /\ pc = "extract"
    /\ epub.valid
    /\ tree' = ExtractAll(epub.files)
    /\ todo' = DOMAIN tree'
    /\ pc' = "images"
    /\ UNCHANGED <<variant, epub, loop, image_mapping, conv_ok, conv_err, calls,
                   zip_out>>
    /\ UNCHANGED <<dvars, rvars>>

\* zipfile.ZipFile or extractall raises (a file that is no archive, or an
\* error of the file system): except Exception ... return False
ExtractFails ==
    /\ pc = "extract"
    /\ pc' = "failed"
    /\ UNCHANGED <<variant, epub, tree, todo, loop, image_mapping, conv_ok,
                   conv_err, calls, zip_out>>
    /\ UNCHANGED <<dvars, rvars>>

\* One iteration of the image loop whose conversion returns True
ConvertImage ==
    /\ pc = "images"
    /\ \E p \in todo :
        /\ IsImageFile(tree, p)
        /\ tree[p].data = "image" /\ tree[p].ok
        /\ DestinationWritable(tree, p)
        /\ tree' = TreeAfterConversion(tree, p)
        /\ image_mapping' = MappingAfter(image_mapping, p, TRUE)
        /\ conv_ok' = conv_ok \cup {p}
        /\ todo' = todo \ {p}
    /\ UNCHANGED <<variant, epub, pc, loop, conv_err, calls, zip_out>>
    /\ UNCHANGED <<dvars, rvars>>

\* One iteration of the image loop whose conversion returns False
ConvertFails ==
    /\ pc = "images"
    /\ \E p \in todo :
        /\ IsImageFile(tree, p)
        /\ tree' \in {tree} \cup TreesAfterFailure(tree, p)
        /\ image_mapping' = MappingAfter(image_mapping, p, FALSE)
        /\ conv_err' = conv_err \cup {p}
        /\ todo' = todo \ {p}
    /\ UNCHANGED <<variant, epub, pc, loop, conv_ok, calls, zip_out>>
    /\ UNCHANGED <<dvars, rvars>>

\* A slip in lines 280-313: the reference update does not wait for the end of
\* the image loop
ImagesDoneEarly ==
    /\ pc = "images"
    /\ IF image_mapping = << >>
       THEN pc' = "repack" /\ loop' = 0 /\ todo' = {}
       ELSE /\ pc' = "references"
            /\ loop' = 1
            /\ todo' = Glob(tree, ReferenceLoops(variant)[1].suffix)
    /\ UNCHANGED <<variant, epub, tree, image_mapping, conv_ok, conv_err, calls,
                   zip_out>>
    /\ UNCHANGED <<dvars, rvars>>

\* An iteration of the image loop whose conversion returned True and stored
\* its mapping entry, and whose img_file.unlink() (line 300) raises: the
\* exception leaves the loop, except Exception ... return False
UnlinkFails ==
    /\ pc = "images"
    /\ \E p \in todo :
        /\ IsImageFile(tree, p)
        /\ tree[p].data = "image" /\ tree[p].ok
        /\ DestinationWritable(tree, p)
        /\ RemovesOriginal(p)
        /\ tree' = WriteFile(tree, NewPathOf(p), ImageFile(tree[p].origin, TRUE, TRUE))
        /\ image_mapping' = MappingAfter(image_mapping, p, TRUE)
        /\ todo' = todo \ {p}
    /\ pc' = "failed"
    /\ UNCHANGED <<variant, epub, loop, conv_ok, conv_err, calls, zip_out>>
    /\ UNCHANGED <<dvars, rvars>>

\* The image loop is over: "if image_mapping:" starts the reference loops,
\* else the repack follows
ImagesDone ==
    /\ pc = "images"
    /\ ~\E p \in todo : IsImageFile(tree, p)
    /\ IF image_mapping = << >>
       THEN pc' = "repack" /\ loop' = 0 /\ todo' = {}
       ELSE /\ pc' = "references"
            /\ loop' = 1
            /\ todo' = Glob(tree, ReferenceLoops(variant)[1].suffix)
    /\ UNCHANGED <<variant, epub, tree, image_mapping, conv_ok, conv_err, calls,
                   zip_out>>
    /\ UNCHANGED <<dvars, rvars>>

\* One iteration of a reference loop: the handler is called on a file
RewriteFile ==
    /\ pc = "references"
    /\ \E p \in todo :
        LET h == ReferenceLoops(variant)[loop].handler
        IN  /\ tree' = [tree EXCEPT ![p] = Handled(tree[p], h, image_mapping)]
            /\ calls' = calls \cup {<<h, p>>}
            /\ todo' = todo \ {p}
    /\ UNCHANGED <<variant, epub, pc, loop, image_mapping, conv_ok, conv_err,
                   zip_out>>
    /\ UNCHANGED <<dvars, rvars>>

\* A reference loop is over: the next one starts, or the repack follows
NextLoop ==
    /\ pc = "references"
    /\ todo = {}
    /\ IF loop < Len(ReferenceLoops(variant))
       THEN /\ loop' = loop + 1
            /\ todo' = Glob(tree, ReferenceLoops(variant)[loop + 1].suffix)
            /\ pc' = pc
       ELSE pc' = "repack" /\ loop' = 0 /\ todo' = {}
    /\ UNCHANGED <<variant, epub, tree, image_mapping, conv_ok, conv_err, calls,
                   zip_out>>
    /\ UNCHANGED <<dvars, rvars>>

\* zipfile.ZipFile(output_epub, 'w') (line 336) or a zip_out.write raises (the
\* output path cannot be written): except Exception ... return False. The
\* entries written so far stay in the output file.
RepackFails ==
    /\ pc \in {"repack", "repack_rest"}
    /\ pc' = "failed"
    /\ UNCHANGED <<variant, epub, tree, todo, loop, image_mapping, conv_ok,
                   conv_err, calls, zip_out>>
    /\ UNCHANGED <<dvars, rvars>>

\* zip_out.write(mimetype_file, 'mimetype', compress_type=ZIP_STORED): a file
\* is written under the name mimetype; for a directory ZipFile.write makes
\* the directory entry mimetype/ with no content
MimetypeEntry(t) ==
    IF t[Str_mimetype].data = "dir"
    THEN Entry(Str_mimetype \o <<"/">>, DirEntry, "stored")
    ELSE Entry(Str_mimetype, t[Str_mimetype], "stored")

\* The output archive is opened; mimetype, if it exists (mimetype_file.exists()
\* is true of a file and of a directory), is written first with ZIP_STORED;
\* the loop over rglob('*') starts
RepackBegin ==
    /\ pc = "repack"
    /\ zip_out' = IF Str_mimetype \in DOMAIN tree
                  THEN <<MimetypeEntry(tree)>>
                  ELSE << >>
    /\ todo' = DOMAIN tree
    /\ pc' = "repack_rest"
    /\ UNCHANGED <<variant, epub, tree, loop, image_mapping, conv_ok, conv_err,
                   calls>>
    /\ UNCHANGED <<dvars, rvars>>

\* One iteration of the repack loop that writes a file (ZIP_DEFLATED)
WriteEntry ==
    /\ pc = "repack_rest"
    /\ \E p \in todo :
        /\ RepackEligible(tree, p)
        /\ zip_out' = Append(zip_out, Entry(p, tree[p], "deflated"))
        /\ todo' = todo \ {p}
    /\ UNCHANGED <<variant, epub, pc, tree, loop, image_mapping, conv_ok,
                   conv_err, calls>>
    /\ UNCHANGED <<dvars, rvars>>

\* The repack loop is over: return True
RepackEnd ==
    /\ pc = "repack_rest"
    /\ ~\E p \in todo : RepackEligible(tree, p)
    /\ pc' = "done"
    /\ todo' = {}
    /\ UNCHANGED <<variant, epub, tree, loop, image_mapping, conv_ok, conv_err,
                   calls, zip_out>>
    /\ UNCHANGED <<dvars, rvars>>

Next ==
    \/ Extract \/ ExtractFails
    \/ ConvertImage \/ ConvertFails \/ UnlinkFails \/ ImagesDone
    \/ RewriteFile \/ NextLoop
    \/ RepackBegin \/ WriteEntry \/ RepackEnd \/ RepackFails

Spec == PipelineInit /\ [][Next]_vars

-----------------------------------------------------------------------------
(* C1 *)

\* v is a member of {0, step, 2*step, ..., 255} with step = 255/(n-1)
InLevelSet(v, n) == \E k \in 0 .. n - 1 : v * (n - 1) = 255 * k

\* v is a level truncated to an integer
InTruncatedLevelSet(v, n) == \E k \in 0 .. n - 1 : v = (255 * k) \div (n - 1)

\* C1 (as stated): when floyd_steinberg_dither returns, every pixel value is a
\* member of the exact level set {0, step, ..., 255}, for every levels >= 2.
C1_ExactLevels ==
    dpc = "returned" => \A c \in DOMAIN pixels : InLevelSet(pixels[c], levels)

\* C1 (amended): when floyd_steinberg_dither returns, every pixel value is a
\* quantization level truncated to an integer; it is a member of the exact
\* level set whenever levels - 1 divides 255 (levels = 4 in the pipeline).
C1_TruncatedLevels ==
    dpc = "returned" =>
        \A c \in DOMAIN pixels :
            /\ InTruncatedLevelSet(pixels[c], levels)
            /\ (255 % (levels - 1) = 0 => InLevelSet(pixels[c], levels))

\* Witness: a returned 3x2 raster reduced to 4 levels that holds at least
\* three different levels, one of them not an original pixel value.
C1_Witness ==
    /\ dpc = "returned"
    /\ levels = 4 /\ width = 3 /\ height = 2
    /\ Cardinality({pixels[c] : c \in DOMAIN pixels}) >= 3

-----------------------------------------------------------------------------
(* C4 - C8: the reference rewriters, under SpecRewrite.                    *)

OldName(e) == Basename(e[1])
NewName(e) == Basename(e[2])
MapEntries == {rw_map[i] : i \in 1 .. Len(rw_map)}
Renamed(e) == OldName(e) # NewName(e)

\* C4: each rewriter is idempotent: a second call on the output of the first
\* call leaves the content unchanged, rewrite(rewrite(x, M), M) = rewrite(x, M).
C4_Idempotent ==
    /\ Len(rw_texts) >= 3 => rw_texts[3] = rw_texts[2]
    /\ Len(rw_docs) >= 3 => rw_docs[3] = rw_docs[2]

\* The values of the src references of a text: src= followed by a quote, up
\* to the next quote of the same kind
SrcRefValues(t) ==
    {SubSeq(t, i + 5, j - 1) :
        <<i, j>> \in {ij \in (1 .. Len(t)) \X (1 .. Len(t)) :
                        /\ StartsWithAt(t, ij[1], SrcEq)
                        /\ ij[1] + 4 <= Len(t)
                        /\ t[ij[1] + 4] \in {DQ, SQ}
                        /\ ij[2] > ij[1] + 4
                        /\ t[ij[2]] = t[ij[1] + 4]
                        /\ \A k \in ij[1] + 5 .. ij[2] - 1 : t[k] # t[ij[1] + 4]}}

\* C5: after update_xml_references the file has no src reference whose final
\* path segment is the old filename of a renamed mapping entry, whatever the
\* form of the reference (any directory prefix or none, either quote).
C5_NoOldSrcRef ==
    (rw_kind = "xml" /\ Len(rw_texts) >= 2) =>
        \A e \in MapEntries :
            Renamed(e) =>
                \A v \in SrcRefValues(rw_texts[2]) : Basename(v) # OldName(e)

\* C6: when update_xml_references rewrites a reference, only the final
\* filename segment of the value changes: the directory part and the quoting
\* style of the attribute are as before.
C6_OnlyFilenameChanges ==
    (rw_kind = "xml" /\ Len(rw_texts) >= 2) =>
        \A q \in {DQ, SQ}, v \in RefValues :
            (rw_texts[1] = XmlRef(q, v) /\ rw_texts[2] # rw_texts[1]) =>
                \E e \in MapEntries :
                    /\ Basename(v) = OldName(e)
                    /\ rw_texts[2] = XmlRef(q, DirPrefix(v) \o NewName(e))

MatchedCssDelims ==
    { << <<DQ>>, <<DQ, ")">> >>, << <<SQ>>, <<SQ, ")">> >>, << << >>, <<")">> >> }

\* C7: a url(...) reference, double-quoted, single-quoted or unquoted, whose
\* final path segment is an old filename of the mapping, comes out of
\* update_css_references as url("<same directory><new filename>").
C7_CssUrlRewritten ==
    (rw_kind = "css" /\ Len(rw_texts) >= 2) =>
        \A d \in MatchedCssDelims, v \in RefValues, e \in MapEntries :
            (rw_texts[1] = UrlOpen \o d[1] \o v \o d[2] /\ Basename(v) = OldName(e)) =>
                rw_texts[2] = UrlDQ \o DirPrefix(v) \o NewName(e) \o <<DQ, ")">>

\* C8: update_opf_manifest rewrites every item whose href filename is an old
\* filename of the mapping (href filename replaced, image/jpeg retargeted to
\* image/png, the rest of the item kept) and leaves every other item as it was.
C8_ManifestItems ==
    (rw_kind = "opf" /\ Len(rw_docs) >= 2 /\ rw_docs[1].parsed /\ rw_docs[1].manifest) =>
        \A k \in 1 .. Len(rw_docs[1].items) :
            LET a == rw_docs[1].items[k]
                b == rw_docs[2].items[k]
                hit == {e \in MapEntries : Basename(a.href) = OldName(e)}
            IN  IF hit = {} THEN b = a
                ELSE \E e \in hit :
                        /\ b.href = DirPrefix(a.href) \o NewName(e)
                        /\ b.media = (IF a.media = "image/jpeg" THEN "image/png"
                                      ELSE a.media)
                        /\ b.id = a.id

-----------------------------------------------------------------------------
(* C2, C3, C9, C10: process_epub, under Spec.                              *)

ZipNames == {zip_out[i].arcname : i \in 1 .. Len(zip_out)}
Repacking == pc \in {"repack_rest", "done"}
ArchiveImageFiles == {p \in DOMAIN epub.files : IsImagePath(p)}

\* C2: in the output archive a root mimetype file of the scratch tree is the
\* first entry and the only one stored without compression, every other
\* entry follows it compressed, no archive path is written twice, and
\* without a root mimetype file the repack can still run to its end, with no
\* mimetype entry and every entry compressed.
C2_MimetypeFirst ==
    /\ Repacking =>
        /\ \A i, j \in 1 .. Len(zip_out) :
               zip_out[i].arcname = zip_out[j].arcname => i = j
        /\ \A i \in 1 .. Len(zip_out) :
               IF i = 1 /\ IsFile(tree, Str_mimetype)
               THEN zip_out[i].arcname = Str_mimetype /\ zip_out[i].compress = "stored"
               ELSE zip_out[i].arcname # Str_mimetype
                    /\ zip_out[i].compress = "deflated"
    /\ (pc = "repack_rest" /\ ~IsFile(tree, Str_mimetype)) =>
           (ENABLED WriteEntry \/ ENABLED RepackEnd)

\* C3: at the end of the repack every regular file of the scratch tree except
\* the root mimetype file is in the output archive exactly once under its
\* relative path, whatever its directory and name.
C3_AllFilesPacked ==
    pc = "done" =>
        \A p \in DOMAIN tree \ {Str_mimetype} :
            IsFile(tree, p) =>
                Cardinality({i \in 1 .. Len(zip_out) : zip_out[i].arcname = p}) = 1

\* C9: a failed image conversion does not abort the run: the step that
\* reports the failure stays in the image loop and leaves the mapping as it
\* is, and no step that ends the run in failure is the report of a failed
\* conversion; the image is not in the path mapping, its source file is
\* still in the scratch tree, every other enumerated image is still
\* attempted, and the run goes on through the reference rewrite and the
\* repack, where every file is written, to return success.
C9_FailureIsSkipped ==
    /\ [](/\ \A p \in conv_err :
               /\ p \notin MapKeys(image_mapping)
               /\ IsFile(tree, p)
          /\ (conv_err # {} /\ pc # "failed") =>
               /\ (pc \in {"repack", "repack_rest", "done"}
                      /\ image_mapping # << >>) =>
                      \A p \in Glob(tree, Str_dot_html) : <<"xml", p>> \in calls
               /\ pc \notin {"extract", "images"} =>
                      conv_ok \cup conv_err = ArchiveImageFiles
               /\ MapKeys(image_mapping) = conv_ok
               /\ pc = "done" => \A p \in DOMAIN tree :
                                     RepackEligible(tree, p) => p \in ZipNames)
    /\ [][ /\ conv_err' # conv_err =>
                  (pc' = "images" /\ image_mapping' = image_mapping)
           /\ (pc # "failed" /\ pc' = "failed") => conv_err' = conv_err
         ]_vars

\* Witness: a run that returned success after one conversion failed and
\* another succeeded, with a reference rewritten.
C9_Witness ==
    /\ pc = "done"
    /\ conv_err # {}
    /\ conv_ok # {}
    /\ calls # {}

\* C10: after a successful conversion of p to q, p is deleted when its
\* extension differs from the output extension, and q is p (overwritten in
\* place) when p is a PNG in any letter case: one file remains per image.
C10_OneFileRemains ==
    \A p \in conv_ok :
        IF Lower(PathSuffix(p)) = DotPng
        THEN NewPathOf(p) = p
        ELSE p \notin DOMAIN tree

-----------------------------------------------------------------------------
(* C11, C13, C15: process_epub, under Spec.                                *)

\* The position of a stage in extract, convert images, rewrite references,
\* repack, terminal
StageRank(s) ==
    CASE s = "extract" -> 0
      [] s = "images" -> 1
      [] s = "references" -> 2
      [] s \in {"repack", "repack_rest"} -> 3
      [] s \in {"done", "failed"} -> 4
      [] OTHER -> 0

StageMoves ==
    { <<"extract", "images">>, <<"extract", "failed">>,
      <<"images", "references">>, <<"images", "repack">>, <<"images", "failed">>,
      <<"references", "repack">>,
      <<"repack", "repack_rest">>, <<"repack", "failed">>,
      <<"repack_rest", "done">>, <<"repack_rest", "failed">> }

\* Some markup, CSS or manifest file of the scratch tree changes in the step
ReferencingFileModified ==
    \E p \in DOMAIN tree \cap DOMAIN tree' :
        tree[p].data # "image" /\ tree'[p] # tree[p]

\* C11: a run passes through extract, convert images, rewrite references,
\* repack, terminal in that order and never goes back; a markup, CSS or
\* manifest file is modified only in the rewrite stage, when every enumerated
\* image has been attempted and the mapping is complete (it no longer
\* changes); an entry is written to the output archive only in the repack
\* stage, and from then on no file of the scratch tree changes and no
\* rewriter is called.
C11_StageOrder ==
    [][ /\ StageRank(pc') >= StageRank(pc)
        /\ pc' # pc => <<pc, pc'>> \in StageMoves
        /\ ReferencingFileModified =>
               /\ pc = "references"
               /\ conv_ok \cup conv_err = ArchiveImageFiles
        /\ image_mapping' # image_mapping => pc = "images"
        /\ pc # "images" => (conv_ok' = conv_ok /\ conv_err' = conv_err)
        /\ calls' # calls => pc = "references"
        /\ zip_out' # zip_out => pc \in {"repack", "repack_rest"}
        /\ pc \in {"repack", "repack_rest", "done"} => tree' = tree
      ]_vars

\* Witness: a finished run in which an image was converted, a rewriter
\* changed a referencing file and the output archive has entries.
C11_Witness ==
    /\ pc = "done"
    /\ image_mapping # << >>
    /\ \E c \in calls : tree[c[2]] # epub.files[c[2]]
    /\ Len(zip_out) >= 2

\* The handler the extension class of a path calls for: markup (.htm, .html,
\* .xhtml), style (.css), manifest (.opf); "none" for any other file
HandlerFor(p) ==
    IF PathSuffix(p) \in {Str_dot_htm, Str_dot_html, Str_dot_xhtml} THEN "xml"
    ELSE IF PathSuffix(p) = Str_dot_css THEN "css"
    ELSE IF PathSuffix(p) = Str_dot_opf THEN "opf"
    ELSE "none"

\* C13: in both variants, once the reference stage is over, if the mapping is
\* not empty every .htm, .html and .xhtml file of the scratch tree was passed
\* to the HTML handler, every .css file to the CSS handler and every .opf
\* file to the manifest handler; if the mapping is empty no handler was
\* called and every such file is as extracted.
C13_EveryReferencingFileHandled ==
    pc \in {"repack", "repack_rest", "done"} =>
        IF image_mapping # << >>
        THEN \A p \in DOMAIN tree :
                 (IsFile(tree, p) /\ HandlerFor(p) # "none") =>
                     <<HandlerFor(p), p>> \in calls
        ELSE /\ calls = {}
             /\ \A p \in DOMAIN tree :
                    (IsFile(tree, p) /\ HandlerFor(p) # "none") =>
                        tree[p] = epub.files[p]

\* The source images the image loop has attempted so far
Attempted == conv_ok \cup conv_err

\* The converter outputs in the scratch tree that hold the picture of p
OutputsOf(p) ==
    {q \in DOMAIN tree :
        tree[q].data = "image" /\ tree[q].gray /\ tree[q].origin = p}

\* C15: in the image stage no two distinct source images get the same
\* destination path and the mapping is injective; a successful conversion
\* overwrites neither a different source image nor the output of another
\* conversion, so a source image not yet attempted is as extracted and the
\* destination of every converted image holds the picture of that image;
\* each converted image has exactly one output.
C15_NoDestinationCollision ==
    pc \in {"images", "references", "repack", "repack_rest", "done"} =>
        /\ \A p, q \in Attempted : NewPathOf(p) = NewPathOf(q) => p = q
        /\ \A i, j \in 1 .. Len(image_mapping) :
               image_mapping[i][2] = image_mapping[j][2] => i = j
        /\ \A p \in ArchiveImageFiles \ Attempted :
               p \in DOMAIN tree /\ tree[p] = epub.files[p]
        /\ \A p \in conv_ok : OutputsOf(p) = {NewPathOf(p)}

-----------------------------------------------------------------------------
(* C12, C14: floyd_steinberg_dither, under SpecDither.                     *)

\* The four Floyd-Steinberg neighbours of <<x, y>> with their weights in
\* sixteenths, in bounds or not
FourNeighbours(x, y) ==
    { <<<<x + 1, y>>, 7>>, <<<<x - 1, y + 1>>, 3>>,
      <<<<x, y + 1>>, 5>>, <<<<x + 1, y + 1>>, 1>> }

\* The increment the step applies to the pixel at c
Increment(c) == pixels'[c] - pixels[c]

\* C12: in a step of the loop at a pixel whose four neighbours are in bounds,
\* the increments applied to the four neighbours sum to the rounding error of
\* the pixel (old value minus quantized value); at a boundary each in-bounds
\* neighbour receives its share (7/16, 3/16, 5/16, 1/16 of the error), and
\* the shares of the missing neighbours go to no other pixel.
C12_ErrorConserved ==
    [][ (dpc = "loop" /\ cur < width * height) =>
            LET x    == CurX
                y    == CurY
                e    == ErrorNum(pixels[<<x, y>>], levels)
                four == FourNeighbours(x, y)
                inb  == {t \in four : t[1] \in DOMAIN pixels}
            IN  /\ inb = four =>
                       (levels - 1) * ( Increment(<<x + 1, y>>)
                                      + Increment(<<x - 1, y + 1>>)
                                      + Increment(<<x, y + 1>>)
                                      + Increment(<<x + 1, y + 1>>) ) = e
                /\ inb # four =>
                       \A t \in inb :
                           16 * (levels - 1) * Increment(t[1]) = e * t[2]
                /\ \A c \in DOMAIN pixels :
                       (c # <<x, y>> /\ \A t \in inb : t[1] # c) =>
                           Increment(c) = 0
      ]_vars

\* The place of the pixel at c in the row-major order (rows top to bottom,
\* within a row left to right)
RowMajorIndex(c) == c[2] * width + c[1]

\* The raster after the first k pixels of the row-major order were visited
RECURSIVE AfterVisits(_, _, _, _, _)
AfterVisits(px, k, w, h, n) ==
    IF k = 0 THEN px
    ELSE DitherPixel(AfterVisits(px, k - 1, w, h, n),
                     (k - 1) % w, (k - 1) \div w, w, h, n)

\* C14: the loop visits the pixels in row-major order; a step quantizes the
\* pixel it visits from the value the pixel has then (its original value
\* plus the error diffused into it by the earlier pixels), and changes no
\* pixel visited before: a quantized pixel keeps its value to the end, so the
\* visited pixels are all at a level; every value of the raster is within
\* [0, 255] at every step.
C14_RowMajorOrder ==
    /\ [](\A c \in DOMAIN pixels :
              /\ pixels[c] \in 0 .. 255
              /\ (dpc # "idle" /\ RowMajorIndex(c) < cur) =>
                     InTruncatedLevelSet(pixels[c], levels))
    /\ [][ (dpc = "loop" /\ cur < width * height) =>
              \E v \in DOMAIN pixels :
                  /\ RowMajorIndex(v) = cur
                  /\ cur' = cur + 1
                  /\ pixels'[v] =
                         StoredLevel(RoundIndex(pixels[v], levels), levels)
                  /\ \A c \in DOMAIN pixels :
                         RowMajorIndex(c) < cur => pixels'[c] = pixels[c]
                  /\ \A c \in DOMAIN pixels :
                         pixels'[c] # pixels[c] => RowMajorIndex(c) >= cur
          ]_vars

\* Witness: four pixels of a 3x2 raster visited at 4 levels; the first pixel
\* of the second row was quantized to a level other than the level of its
\* original value, because of the error diffused into it from the first row.
C14_Witness ==
    /\ dpc = "loop" /\ cur = 4
    /\ levels = 4 /\ width = 3 /\ height = 2
    /\ \E b \in RampBases, dx \in RampSlopes, dy \in RampSlopes :
           LET p0 == Ramp(3, 2, b, dx, dy)
           IN  /\ pixels = AfterVisits(p0, 4, 3, 2, 4)
               /\ pixels[<<0, 1>>] # StoredLevel(RoundIndex(p0[<<0, 1>>], 4), 4)

====
